---- MODULE Spec2Model ----
(***************************************************************************)
(* tmax_pmem: volatile use of a PMEM mount.  Every allocation is a         *)
(* temporary file created under a directory, sized, and mapped shared.     *)
(* The model keeps the operating-system state the library touches (inode   *)
(* table, descriptor table, mappings), the heap records of struct          *)
(* pmem_file, and the address each caller variable holds.                  *)
(***************************************************************************)
EXTENDS Integers, Sequences, FiniteSets, TLC

\* ---------------------------------------------------------------- bounds
MaxFiles == 3      \* inodes / temporary names the directory can hold at once
MaxFds == 3        \* descriptors the process may have open at once
MaxAddrs == 2      \* distinct mapped regions
MaxHandles == 2    \* heap slots for struct pmem_file
MaxSize == 2       \* largest size requested
MaxCalls == 3      \* library calls and caller steps in one run
MaxThreads == 2    \* threads that share the handles

\* ------------------------------------------------------- program constants
SUCCESS == 0
ERROR_MMAP == -3
ERROR_MALLOC == -6
ERROR_INVALID == -13
ERROR_RUNTIME == -255
PATH_MAX == 4096
TemplateLen == 12

FileIds == 1..MaxFiles
Fds == 3..(2 + MaxFds)
Signals == {"SIGINT", "SIGTERM"}
Threads == 1..MaxThreads
Addrs == 1..MaxAddrs
HandleIds == 1..MaxHandles
Sizes == 1..MaxSize
Bytes == {1}

\* Directory arguments a caller may pass: an existing directory, an existing
\* directory whose path leaves no room for the template, a missing one, and
\* a path longer than the platform limit.
DirNames == {"pmem_tmp", "deep", "nodir", "huge"}
DirExists == {"pmem_tmp", "deep"}
DirLen == [d \in DirNames |->
             CASE d = "pmem_tmp" -> 10
               [] d = "deep" -> PATH_MAX - 6
               [] d = "nodir" -> 6
               [] d = "huge" -> PATH_MAX + 4]

VARIABLES
    files,    \* inode table: [linked, dir, len, data]
    fdtab,    \* descriptor -> inode (0: closed)
    maps,     \* address -> [file, len] (file 0: not mapped)
    heap,     \* struct pmem_file records
    addrOf,   \* the address variable the caller keeps next to each handle
    subdirs,  \* directories that hold an entry unlink() cannot remove
    ncalls,   \* calls made so far
    sigmask,  \* the signals the process has blocked
    pmem_info, \* the global record pointer of the single-record variant (0: NULL)
    thr,      \* per thread: where it is inside pmem_free, and on which handle
    last      \* the last call: arguments, result, OS calls made

vars == <<files, fdtab, maps, heap, addrOf, subdirs, ncalls, sigmask, pmem_info,
          thr, last>>

NoFile == [linked |-> FALSE, dir |-> "none", len |-> 0, data |-> <<>>]
NoMap == [file |-> 0, len |-> 0, shared |-> TRUE, priv |-> <<>>]
NoRec == [st |-> "none", api |-> "none", init |-> {}, fd |-> 0,
          current_size |-> 0, fullpath |-> 0, dir |-> "none", max_size |-> 0]
NoCall == [op |-> "none", h |-> 0, dir |-> "none", size |-> 0, ret |-> 0,
           err |-> 0, osfail |-> "none", newf |-> 0, newfd |-> 0, pre |-> "none",
           closed |-> 0, uninit |-> FALSE, calls |-> <<>>, listed |-> {},
           tried |-> {}, presize |-> 0, old |-> <<>>, hfd |-> 0, hpath |-> 0,
           haddr |-> 0, maskfrom |-> "none",
           crash |-> FALSE]

\* access(dir, F_OK) == 0: the directory exists and its path is one the
\* kernel accepts.
access(dir) == dir \in DirExists /\ DirLen[dir] < PATH_MAX

InUse(fl, ft, mp, f) ==
    \/ fl[f].linked
    \/ \E d \in Fds : ft[d] = f
    \/ \E a \in Addrs : mp[a].file = f

\* An inode with no link, no descriptor and no mapping is gone.
Reap(fl, ft, mp) == [f \in FileIds |-> IF InUse(fl, ft, mp, f) THEN fl[f] ELSE NoFile]

FreeFds(ft) == {d \in Fds : ft[d] = 0}
LowestFreeFd(ft) == CHOOSE d \in FreeFds(ft) : \A e \in FreeFds(ft) : d <= e
FreeFiles(fl, ft, mp) == {f \in FileIds : ~InUse(fl, ft, mp, f)}
FreeAddrs(mp) == {a \in Addrs : mp[a].file = 0}
FreeHandles == {h \in HandleIds : heap[h].st \in {"none", "freed"}}

\* close(fd): closing -1 or a closed descriptor is EBADF and changes nothing.
close(ft, fd) == IF fd \in Fds THEN [ft EXCEPT ![fd] = 0] ELSE ft

\* ftruncate(fd, size): the file has exactly size bytes, new bytes are zero.
ftruncate(fl, f, size) ==
    [fl EXCEPT ![f].len = size,
               ![f].data = [i \in 1..size |->
                              IF i <= Len(fl[f].data) THEN fl[f].data[i] ELSE 0]]

TypeOK ==
    /\ \A f \in FileIds : files[f].len = Len(files[f].data)
    /\ \A d \in Fds : fdtab[d] \in FileIds \cup {0}
    /\ \A a \in Addrs : maps[a].file \in FileIds \cup {0}
    /\ \A h \in HandleIds : heap[h].st \in {"none", "failed", "live", "zombie", "freed"}

Init ==
    /\ files = [f \in FileIds |-> NoFile]
    /\ fdtab = [d \in Fds |-> 0]
    /\ maps = [a \in Addrs |-> NoMap]
    /\ heap = [h \in HandleIds |-> NoRec]
    /\ addrOf = [h \in HandleIds |-> 0]
    /\ subdirs \in SUBSET {"pmem_tmp"}
    /\ last = NoCall
    /\ ncalls = 0
    /\ sigmask = {"SIGINT"}
    /\ pmem_info = 0
    /\ thr = [t \in Threads |-> [pc |-> "idle", h |-> 0, ret |-> 0]]

\* sigfillset(&set)
sigfillset == Signals

\* sigprocmask(how, &set, ...) over the mask m: the mask afterwards.
sigprocmask(how, set, m) == IF how = "SIG_BLOCK" THEN m \cup set ELSE set

\* The mask after sigprocmask(SIG_BLOCK, &set, &oldset) ... 
\* sigprocmask(SIG_SETMASK, &oldset, NULL), oldset being the mask saved by
\* the first call.
BlockedThenRestored ==
    LET oldset == sigmask
        blocked == sigprocmask("SIG_BLOCK", sigfillset, sigmask)
    IN sigprocmask("SIG_SETMASK", oldset, blocked)

\* The process is alive (no call has crashed it) and the run goes on.
Running == ~last.crash /\ ncalls < MaxCalls

\* ------------------------------------------------------------ allocation

\* mkstemp(fullname) succeeds when the kernel accepts the path, a descriptor
\* is free and the directory can take one more name (nf is the name chosen).
mkstemp_ok(dir, ft, fault, nf) ==
    /\ fault # "mkstemp"
    /\ dir \in DirExists
    /\ DirLen[dir] + TemplateLen < PATH_MAX
    /\ FreeFds(ft) # {}
    /\ nf # 0

\* pmem_create_tmpfile with the directory check reporting the wrong code.
pmem_create_tmpfile_errcode(dir, rec, fl, ft, fault, nf) ==
    IF ~access(dir)
    THEN [err |-> ERROR_RUNTIME, rec |-> rec, files |-> fl, fdtab |-> ft,
          newf |-> 0, newfd |-> 0, osfail |-> "access", calls |-> <<"access">>,
          closed |-> 0, uninit |-> FALSE, crash |-> FALSE,
          sigmask |-> sigmask, maskfrom |-> "none"]
    ELSE IF DirLen[dir] > PATH_MAX
    THEN [err |-> ERROR_INVALID, rec |-> rec, files |-> fl, fdtab |-> ft,
          newf |-> 0, newfd |-> 0, osfail |-> "none", calls |-> <<"access">>,
          closed |-> 0, uninit |-> FALSE, crash |-> FALSE,
          sigmask |-> sigmask, maskfrom |-> "none"]
    ELSE IF ~mkstemp_ok(dir, ft, fault, nf)
    THEN [err |-> ERROR_INVALID,
          rec |-> [rec EXCEPT !.fd = -1, !.init = rec.init \cup {"fd"}],
          files |-> fl, fdtab |-> ft, newf |-> 0, newfd |-> 0,
          osfail |-> "mkstemp",
          calls |-> <<"access", "SIG_BLOCK", "mkstemp", "SIG_SETMASK">>,
          closed |-> 0, uninit |-> FALSE, crash |-> FALSE,
          sigmask |-> BlockedThenRestored, maskfrom |-> "saved"]
    ELSE LET fd == LowestFreeFd(ft) IN
         [err |-> SUCCESS,
          rec |-> [rec EXCEPT !.fd = fd, !.fullpath = nf,
                              !.init = rec.init \cup {"fd", "fullpath"}],
          files |-> [fl EXCEPT ![nf] = [linked |-> TRUE, dir |-> dir,
                                        len |-> 0, data |-> <<>>]],
          fdtab |-> [ft EXCEPT ![fd] = nf],
          newf |-> nf, newfd |-> fd, osfail |-> "none",
          calls |-> <<"access", "SIG_BLOCK", "mkstemp", "SIG_SETMASK">>,
          closed |-> 0, uninit |-> FALSE, crash |-> FALSE,
          sigmask |-> BlockedThenRestored, maskfrom |-> "saved"]

\* pmem_create_tmpfile with err left at SUCCESS when mkstemp fails.
pmem_create_tmpfile_keeperr(dir, rec, fl, ft, fault, nf) ==
    IF ~access(dir)
    THEN [err |-> ERROR_INVALID, rec |-> rec, files |-> fl, fdtab |-> ft,
          newf |-> 0, newfd |-> 0, osfail |-> "access", calls |-> <<"access">>,
          closed |-> 0, uninit |-> FALSE, crash |-> FALSE,
          sigmask |-> sigmask, maskfrom |-> "none"]
    ELSE IF DirLen[dir] > PATH_MAX
    THEN [err |-> ERROR_INVALID, rec |-> rec, files |-> fl, fdtab |-> ft,
          newf |-> 0, newfd |-> 0, osfail |-> "none", calls |-> <<"access">>,
          closed |-> 0, uninit |-> FALSE, crash |-> FALSE,
          sigmask |-> sigmask, maskfrom |-> "none"]
    ELSE IF ~mkstemp_ok(dir, ft, fault, nf)
    THEN [err |-> SUCCESS,
          rec |-> [rec EXCEPT !.fd = -1, !.init = rec.init \cup {"fd"}],
          files |-> fl, fdtab |-> ft, newf |-> 0, newfd |-> 0,
          osfail |-> "mkstemp",
          calls |-> <<"access", "SIG_BLOCK", "mkstemp", "SIG_SETMASK">>,
          closed |-> 0, uninit |-> FALSE, crash |-> FALSE,
          sigmask |-> BlockedThenRestored, maskfrom |-> "saved"]
    ELSE LET fd == LowestFreeFd(ft) IN
         [err |-> SUCCESS,
          rec |-> [rec EXCEPT !.fd = fd, !.fullpath = nf,
                              !.init = rec.init \cup {"fd", "fullpath"}],
          files |-> [fl EXCEPT ![nf] = [linked |-> TRUE, dir |-> dir,
                                        len |-> 0, data |-> <<>>]],
          fdtab |-> [ft EXCEPT ![fd] = nf],
          newf |-> nf, newfd |-> fd, osfail |-> "none",
          calls |-> <<"access", "SIG_BLOCK", "mkstemp", "SIG_SETMASK">>,
          closed |-> 0, uninit |-> FALSE, crash |-> FALSE,
          sigmask |-> BlockedThenRestored, maskfrom |-> "saved"]

\* pmem_create_tmpfile(dir, pfile_ptr): rec is *pfile_ptr on entry.
pmem_create_tmpfile(dir, rec, fl, ft, fault, nf) ==
    IF ~access(dir)
    THEN [err |-> ERROR_INVALID, rec |-> rec, files |-> fl, fdtab |-> ft,
          newf |-> 0, newfd |-> 0, osfail |-> "access", calls |-> <<"access">>,
          closed |-> 0, uninit |-> FALSE, crash |-> FALSE,
          sigmask |-> sigmask, maskfrom |-> "none"]
    ELSE IF DirLen[dir] > PATH_MAX
    THEN [err |-> ERROR_INVALID, rec |-> rec, files |-> fl, fdtab |-> ft,
          newf |-> 0, newfd |-> 0, osfail |-> "none", calls |-> <<"access">>,
          closed |-> 0, uninit |-> FALSE, crash |-> FALSE,
          sigmask |-> sigmask, maskfrom |-> "none"]
    ELSE IF ~mkstemp_ok(dir, ft, fault, nf)
    THEN \* exit: the descriptor field holds mkstemp's -1, nothing to close
         [err |-> ERROR_INVALID,
          rec |-> [rec EXCEPT !.fd = -1, !.init = rec.init \cup {"fd"}],
          files |-> fl, fdtab |-> ft, newf |-> 0, newfd |-> 0,
          osfail |-> "mkstemp",
          calls |-> <<"access", "SIG_BLOCK", "mkstemp", "SIG_SETMASK">>,
          closed |-> 0, uninit |-> FALSE, crash |-> FALSE,
          sigmask |-> BlockedThenRestored, maskfrom |-> "saved"]
    ELSE LET fd == LowestFreeFd(ft) IN
         [err |-> SUCCESS,
          rec |-> [rec EXCEPT !.fd = fd, !.fullpath = nf,
                              !.init = rec.init \cup {"fd", "fullpath"}],
          files |-> [fl EXCEPT ![nf] = [linked |-> TRUE, dir |-> dir,
                                        len |-> 0, data |-> <<>>]],
          fdtab |-> [ft EXCEPT ![fd] = nf],
          newf |-> nf, newfd |-> fd, osfail |-> "none",
          calls |-> <<"access", "SIG_BLOCK", "mkstemp", "SIG_SETMASK">>,
          closed |-> 0, uninit |-> FALSE, crash |-> FALSE,
          sigmask |-> BlockedThenRestored, maskfrom |-> "saved"]

\* The exit: label of pmem_malloc: close the descriptor field unless it is
\* -1.  A field never assigned holds whatever malloc left there (g).
malloc_exit(op, h, dir, size, t, err, osfail, calls, g) ==
    LET fdv == IF "fd" \in t.rec.init THEN t.rec.fd ELSE g
        ft2 == IF fdv # -1 THEN close(t.fdtab, fdv) ELSE t.fdtab
    IN [files |-> Reap(t.files, ft2, maps), fdtab |-> ft2, maps |-> maps,
        heap |-> [heap EXCEPT ![h] = t.rec],
        addrOf |-> [addrOf EXCEPT ![h] = 0],
        sigmask |-> t.sigmask,
        last |-> [NoCall EXCEPT !.op = op, !.h = h, !.dir = dir, !.size = size,
                      !.maskfrom = t.maskfrom,
                      !.ret = 0, !.err = err, !.osfail = osfail,
                      !.newf = t.newf, !.newfd = t.newfd,
                      !.closed = IF fdv # -1 THEN fdv ELSE t.closed,
                      !.uninit = t.uninit \/ ~("fd" \in t.rec.init),
                      !.crash = t.crash,
                      !.calls = IF fdv # -1 THEN Append(calls, "close") ELSE calls]]

\* mmap(NULL, size, PROT_READ | PROT_WRITE, MAP_SHARED, fd, 0) placed at a:
\* stores through the region reach the file.
mmap(mp, a, f, size) ==
    [mp EXCEPT ![a] = [file |-> f, len |-> size, shared |-> TRUE, priv |-> <<>>]]

\* The end of pmem_malloc without the assignment of current_size.
malloc_return_nosize(h, dir, size, t, a) ==
    [files |-> t.files, fdtab |-> t.fdtab,
     maps |-> [maps EXCEPT ![a] = [file |-> t.newf, len |-> size,
                                   shared |-> TRUE, priv |-> <<>>]],
     heap |-> [heap EXCEPT ![h] = [t.rec EXCEPT !.st = "live"]],
     addrOf |-> [addrOf EXCEPT ![h] = a],
     sigmask |-> t.sigmask,
     last |-> [NoCall EXCEPT !.op = "pmem_malloc", !.h = h, !.dir = dir,
                   !.size = size, !.ret = a, !.err = SUCCESS,
                   !.maskfrom = t.maskfrom,
                   !.newf = t.newf, !.newfd = t.newfd,
                   !.calls = t.calls \o <<"ftruncate", "mmap">>]]

\* The successful end of pmem_malloc: the size is recorded in the handle and
\* the address returned.
malloc_return(h, dir, size, t, a) ==
    [files |-> t.files, fdtab |-> t.fdtab,
     maps |-> mmap(maps, a, t.newf, size),
     heap |-> [heap EXCEPT ![h] =
                 [t.rec EXCEPT !.st = "live", !.current_size = size,
                               !.init = t.rec.init \cup {"current_size"}]],
     addrOf |-> [addrOf EXCEPT ![h] = a],
     sigmask |-> t.sigmask,
     last |-> [NoCall EXCEPT !.op = "pmem_malloc", !.h = h, !.dir = dir,
                   !.size = size, !.ret = a, !.err = SUCCESS,
                   !.maskfrom = t.maskfrom,
                   !.newf = t.newf, !.newfd = t.newfd,
                   !.calls = t.calls \o <<"ftruncate", "mmap">>]]

\* void *pmem_malloc(dir, addr = NULL, size, pfile_ptr).  h is the record
\* malloc returns (0: NULL), nf the name mkstemp picks, a the address mmap
\* picks (0: none left).
pmem_malloc(h, dir, size, fault, nf, a, g) ==
    LET rec0 == [NoRec EXCEPT !.st = "failed", !.api = "v4"]
        t == pmem_create_tmpfile(dir, rec0, files, fdtab, fault, nf)
    IN IF h = 0
       THEN \* exit: reads (*pfile_ptr)->fd through the NULL pointer
            [files |-> files, fdtab |-> fdtab, maps |-> maps, heap |-> heap,
             addrOf |-> addrOf,
             last |-> [NoCall EXCEPT !.op = "pmem_malloc", !.dir = dir,
                           !.size = size, !.err = ERROR_MALLOC,
                           !.osfail = "malloc", !.crash = TRUE]]
       ELSE IF t.err # SUCCESS
       THEN malloc_exit("pmem_malloc", h, dir, size, t, t.err, t.osfail, t.calls, g)
       ELSE IF fault = "ftruncate" \/ t.newfd = 0
       THEN malloc_exit("pmem_malloc", h, dir, size, t, t.err, "ftruncate",
                        Append(t.calls, "ftruncate"), g)
       ELSE LET t2 == [t EXCEPT !.files = ftruncate(t.files, t.newf, size)] IN
            IF fault = "mmap" \/ a = 0
            THEN malloc_exit("pmem_malloc", h, dir, size, t2, ERROR_MMAP, "mmap",
                             t.calls \o <<"ftruncate", "mmap">>, g)
            ELSE malloc_return(h, dir, size, t2, a)

Apply(r) ==
    /\ files' = r.files
    /\ fdtab' = r.fdtab
    /\ maps' = r.maps
    /\ heap' = r.heap
    /\ addrOf' = r.addrOf
    /\ last' = r.last
    /\ sigmask' = IF "sigmask" \in DOMAIN r THEN r.sigmask ELSE sigmask
    /\ pmem_info' = IF "pmem_info" \in DOMAIN r THEN r.pmem_info ELSE pmem_info
    /\ UNCHANGED <<subdirs, thr>>
    /\ ncalls' = ncalls + 1

\* malloc, mkstemp and mmap hand out the lowest free slot, name and address;
\* 0 stands for none left.
Lowest(S) == IF S = {} THEN 0 ELSE CHOOSE x \in S : \A y \in S : x <= y

\* The step of an allocation the environment makes fail.  Only steps the
\* call reaches are listed: with a directory access() rejects, nothing after
\* the directory check runs.
Faults(dir, dup) ==
    IF ~access(dir) THEN {"none", "malloc"}
    ELSE {"none", "malloc", "mkstemp", "ftruncate", "mmap"}
            \cup (IF dup THEN {"strdup"} ELSE {})

\* What an unassigned descriptor field may hold.
Garbage == Fds \cup {-1}

Call_pmem_malloc ==
    /\ Running
    /\ \E dir \in DirNames, size \in Sizes : \E fault \in Faults(dir, FALSE) :
       \E g \in (IF access(dir) \/ fault = "malloc" THEN {-1} ELSE Garbage) :
          Apply(pmem_malloc(IF fault = "malloc" THEN 0 ELSE Lowest(FreeHandles),
                            dir, size, fault,
                            Lowest(FreeFiles(files, fdtab, maps)),
                            Lowest(FreeAddrs(maps)), g))

\* ------------------------------------------------------------ release

\* munmap(addr, size): EINVAL for a zero length; otherwise the region at
\* addr, if any, is gone.
munmap(mp, addr) == IF addr \in Addrs THEN [mp EXCEPT ![addr] = NoMap] ELSE mp

\* unlink(path) removes the name; it fails when nothing has that name.
unlink_ok(fl, path) == path \in FileIds /\ fl[path].linked
unlink(fl, path) == [fl EXCEPT ![path].linked = FALSE]

\* The shared body with the descriptor closed before the region is unmapped.
release_closefirst(op, unlinks, h, addr, fault, gs, g, gp, c) ==
    LET r == heap[h]
        dangling == r.st = "freed"
        size == IF dangling THEN gs ELSE r.current_size
        fd == IF dangling THEN g ELSE r.fd
        path == IF dangling THEN gp ELSE r.fullpath
        mp2 == munmap(maps, addr)
        ft2 == close(fdtab, fd)
        base == [NoCall EXCEPT !.op = op, !.h = h, !.pre = r.st, !.hfd = fd,
                     !.hpath = path, !.haddr = addr]
    IN IF fault = "munmap" \/ size = 0
       THEN [files |-> Reap(files, ft2, maps), fdtab |-> ft2, maps |-> maps,
             heap |-> heap, addrOf |-> addrOf,
             last |-> [base EXCEPT !.ret = ERROR_MMAP, !.err = ERROR_MMAP,
                           !.osfail = "munmap", !.closed = fd,
                           !.calls = <<"close", "munmap">>]]
       ELSE IF unlinks /\ (fault = "unlink" \/ ~unlink_ok(files, path))
       THEN [files |-> Reap(files, ft2, mp2), fdtab |-> ft2, maps |-> mp2,
             heap |-> [heap EXCEPT ![h].st = IF dangling THEN "freed" ELSE "zombie"],
             addrOf |-> addrOf,
             last |-> [base EXCEPT !.ret = ERROR_RUNTIME, !.err = ERROR_RUNTIME,
                           !.osfail = "unlink", !.closed = fd,
                           !.calls = <<"close", "munmap", "unlink">>]]
       ELSE [files |-> Reap(IF unlinks THEN unlink(files, path) ELSE files, ft2, mp2),
             fdtab |-> ft2, maps |-> mp2,
             heap |-> [heap EXCEPT ![h] = [NoRec EXCEPT !.st = "freed", !.api = r.api]],
             addrOf |-> addrOf,
             last |-> [base EXCEPT !.ret = SUCCESS, !.err = SUCCESS, !.closed = fd,
                           !.calls = IF unlinks
                                     THEN <<"close", "munmap", "unlink", "free">>
                                     ELSE <<"close", "munmap", "free">>,
                           !.crash = dangling /\ c]]

\* The body shared by pmem_free and the two pmem_cleanup: munmap, close,
\* unlink of the retained path (unlinks), free of the record.  h is what the
\* handle pointer points at.  The fields of a record already released are
\* read through a dangling pointer: they hold any value (gs, g, gp);
\* releasing such a record again either aborts in the allocator (c) or goes
\* unnoticed.
release(op, unlinks, h, addr, fault, gs, g, gp, c) ==
    LET r == heap[h]
        dangling == r.st = "freed"
        size == IF dangling THEN gs ELSE r.current_size
        fd == IF dangling THEN g ELSE r.fd
        path == IF dangling THEN gp ELSE r.fullpath
        mp2 == munmap(maps, addr)
        ft2 == close(fdtab, fd)
        base == [NoCall EXCEPT !.op = op, !.h = h, !.pre = r.st, !.hfd = fd,
                     !.hpath = path, !.haddr = addr]
    IN IF fault = "munmap" \/ size = 0
       THEN [files |-> files, fdtab |-> fdtab, maps |-> maps, heap |-> heap,
             addrOf |-> addrOf,
             last |-> [base EXCEPT !.ret = ERROR_MMAP, !.err = ERROR_MMAP,
                           !.osfail = "munmap", !.calls = <<"munmap">>]]
       ELSE IF unlinks /\ (fault = "unlink" \/ ~unlink_ok(files, path))
       THEN [files |-> Reap(files, ft2, mp2), fdtab |-> ft2, maps |-> mp2,
             heap |-> [heap EXCEPT ![h].st = IF dangling THEN "freed" ELSE "zombie"],
             addrOf |-> addrOf,
             last |-> [base EXCEPT !.ret = ERROR_RUNTIME, !.err = ERROR_RUNTIME,
                           !.osfail = "unlink", !.closed = fd,
                           !.calls = <<"munmap", "close", "unlink">>]]
       ELSE [files |-> Reap(IF unlinks THEN unlink(files, path) ELSE files, ft2, mp2),
             fdtab |-> ft2, maps |-> mp2,
             heap |-> [heap EXCEPT ![h] = [NoRec EXCEPT !.st = "freed", !.api = r.api]],
             addrOf |-> addrOf,
             last |-> [base EXCEPT !.ret = SUCCESS, !.err = SUCCESS, !.closed = fd,
                           !.calls = IF unlinks
                                     THEN <<"munmap", "close", "unlink", "free">>
                                     ELSE <<"munmap", "close", "free">>,
                           !.crash = dangling /\ c]]

\* int pmem_free(addr, pfile_ptr)
pmem_free(h, addr, fault, gs, g, gp, c) ==
    release("pmem_free", TRUE, h, addr, fault, gs, g, gp, c)

\* int pmem_cleanup(addr, pfile_ptr) of the retained-path variant
pmem_cleanup(h, addr, fault, gs, g, gp, c) ==
    release("pmem_cleanup", TRUE, h, addr, fault, gs, g, gp, c)

\* int pmem_cleanup(addr, pfile) of the unlink-at-creation variant
pmem_cleanup_fd(h, addr, fault, gs, g, gp, c) ==
    release("pmem_cleanup_fd", FALSE, h, addr, fault, gs, g, gp, c)

Held(api) == {h \in HandleIds : heap[h].api = api /\ heap[h].st \in {"live", "zombie", "freed"}}

Call_pmem_free ==
    /\ Running
    /\ \E h \in Held("v4"), fault \in {"none", "munmap", "unlink"} :
       IF heap[h].st = "freed"
       THEN \E gs \in {0, 1}, g \in Garbage, gp \in FileIds, c \in BOOLEAN :
               Apply(pmem_free(h, addrOf[h], fault, gs, g, gp, c))
       ELSE Apply(pmem_free(h, addrOf[h], fault, 0, -1, 1, FALSE))

Call_pmem_cleanup ==
    /\ Running
    /\ \E h \in Held("v1"), fault \in {"none", "munmap", "unlink"} :
       IF heap[h].st = "freed"
       THEN \E gs \in {0, 1}, g \in Garbage, gp \in FileIds, c \in BOOLEAN :
               Apply(pmem_cleanup(h, addrOf[h], fault, gs, g, gp, c))
       ELSE Apply(pmem_cleanup(h, addrOf[h], fault, 0, -1, 1, FALSE))

Call_pmem_cleanup_fd ==
    /\ Running
    /\ \E h \in Held("v3"), fault \in {"none", "munmap"} :
       IF heap[h].st = "freed"
       THEN \E gs \in {0, 1}, g \in Garbage, c \in BOOLEAN :
               Apply(pmem_cleanup_fd(h, addrOf[h], fault, gs, g, 1, c))
       ELSE Apply(pmem_cleanup_fd(h, addrOf[h], fault, 0, -1, 1, FALSE))

\* ------------------------------------------------------------ bulk reclaim

\* What readdir() returns for dir besides "." and "..": the files linked
\* there and, marked 0, a subdirectory.
Entries(dir) ==
    {f \in FileIds : files[f].linked /\ files[f].dir = dir}
        \cup (IF dir \in subdirs THEN {0} ELSE {})

\* The orders in which readdir() may list a set of entries.
Orders(S) == {o \in [1..Cardinality(S) -> S] : \A i, j \in DOMAIN o : o[i] = o[j] => i = j}

\* The while loop of pmem_cleanup_all from entry i of the listing on, and
\* what follows it.  Each entry gets a path buffer (malloc), is unlinked, and
\* the buffer is freed; unlink() of a directory fails, and the function
\* leaves at once through exit:, which only returns.
RECURSIVE cleanup_scan(_, _, _, _)
cleanup_scan(order, i, fl, tried) ==
    IF i > Len(order)
    THEN [files |-> fl, err |-> SUCCESS, tried |-> tried,
          calls |-> <<"closedir">>]
    ELSE IF order[i] = 0
    THEN [files |-> fl, err |-> ERROR_RUNTIME, tried |-> tried \cup {0},
          calls |-> <<"malloc", "unlink">>]
    ELSE LET r == cleanup_scan(order, i + 1, unlink(fl, order[i]),
                               tried \cup {order[i]})
         IN [r EXCEPT !.calls = <<"malloc", "unlink", "free">> \o r.calls]

\* int pmem_cleanup_all(dir); opendir() fails as access() does.
pmem_cleanup_all(dir, order) ==
    LET base == [NoCall EXCEPT !.op = "pmem_cleanup_all", !.dir = dir]
        r == cleanup_scan(order, 1, files, {})
    IN IF ~access(dir)
       THEN [files |-> files, fdtab |-> fdtab, maps |-> maps, heap |-> heap,
             addrOf |-> addrOf,
             last |-> [base EXCEPT !.ret = ERROR_INVALID, !.err = ERROR_INVALID,
                           !.osfail = "opendir"]]
       ELSE [files |-> Reap(r.files, fdtab, maps), fdtab |-> fdtab, maps |-> maps,
             heap |-> heap, addrOf |-> addrOf,
             last |-> [base EXCEPT !.ret = r.err, !.err = r.err,
                           !.osfail = IF r.err = SUCCESS THEN "none" ELSE "unlink",
                           !.listed = Entries(dir), !.tried = r.tried,
                           !.calls = <<"opendir">> \o r.calls]]

Call_pmem_cleanup_all ==
    /\ Running
    /\ \E dir \in DirNames : \E order \in Orders(Entries(dir)) :
          Apply(pmem_cleanup_all(dir, order))

\* ------------------------------------------------------------ the caller

\* The bytes seen through the mapping at addr.
mem(a) == IF a \in Addrs /\ maps[a].file # 0
          THEN IF maps[a].shared
               THEN [i \in 1..maps[a].len |->
                       IF i <= files[maps[a].file].len
                       THEN files[maps[a].file].data[i] ELSE 0]
               ELSE maps[a].priv
          ELSE <<>>

\* fopen(pfile->fullpath, "r") and fgets: the bytes of the file of that name.
fread_path(path) == IF path \in FileIds /\ files[path].linked THEN files[path].data ELSE <<>>

\* The caller fills the region it was given: addr[i] = b for every i of the
\* mapping, through the address it holds for handle h.
Call_store ==
    /\ Running
    /\ \E h \in HandleIds, b \in Bytes :
       LET a == addrOf[h] IN
       /\ heap[h].st = "live"
       /\ a \in Addrs
       /\ maps[a].file # 0
       /\ IF maps[a].shared
          THEN /\ files' = [files EXCEPT ![maps[a].file].data =
                              [i \in 1..Len(@) |-> IF i <= maps[a].len THEN b ELSE @[i]]]
               /\ maps' = maps
          ELSE /\ maps' = [maps EXCEPT ![a].priv = [i \in 1..maps[a].len |-> b]]
               /\ files' = files
       /\ last' = [NoCall EXCEPT !.op = "store", !.h = h]
       /\ ncalls' = ncalls + 1
       /\ UNCHANGED <<fdtab, heap, addrOf, subdirs, sigmask, pmem_info, thr>>

\* ------------------------------------------- the retained-path variant

\* posix_fallocate(fd, 0, size): the file is at least size bytes long.
posix_fallocate(fl, f, size) == IF size > fl[f].len THEN ftruncate(fl, f, size) ELSE fl

\* pmem_create_tmpfile(dir, pfile_ptr) whose directory check leaves through
\* exit: the label sets the signal mask from oldset before anything was saved
\* there (gm), closes whatever the descriptor field holds (g when it was
\* never assigned), sets it to -1 and frees fullname before it was assigned,
\* which aborts (c) or goes unnoticed.
pmem_create_tmpfile_v1(dir, rec, fl, ft, fault, nf, g, c, gm) ==
    IF ~access(dir)
    THEN LET fdv == IF "fd" \in rec.init THEN rec.fd ELSE g
             ft2 == IF fdv # -1 THEN close(ft, fdv) ELSE ft
         IN [err |-> ERROR_INVALID,
             rec |-> [rec EXCEPT !.fd = -1, !.init = rec.init \cup {"fd"}],
             files |-> fl, fdtab |-> ft2, newf |-> 0, newfd |-> 0,
             osfail |-> "access",
             calls |-> IF fdv # -1 THEN <<"access", "SIG_SETMASK", "close">>
                       ELSE <<"access", "SIG_SETMASK">>,
             closed |-> IF fdv # -1 THEN fdv ELSE 0,
             uninit |-> ~("fd" \in rec.init), crash |-> c,
             sigmask |-> sigprocmask("SIG_SETMASK", gm, sigmask),
             maskfrom |-> "unsaved"]
    ELSE IF DirLen[dir] > PATH_MAX
    THEN [err |-> ERROR_INVALID, rec |-> rec, files |-> fl, fdtab |-> ft,
          newf |-> 0, newfd |-> 0, osfail |-> "none", calls |-> <<"access">>,
          closed |-> 0, uninit |-> FALSE, crash |-> FALSE,
          sigmask |-> sigmask, maskfrom |-> "none"]
    ELSE IF ~mkstemp_ok(dir, ft, fault, nf)
    THEN [err |-> ERROR_INVALID,
          rec |-> [rec EXCEPT !.fd = -1, !.init = rec.init \cup {"fd"}],
          files |-> fl, fdtab |-> ft, newf |-> 0, newfd |-> 0,
          osfail |-> "mkstemp",
          calls |-> <<"access", "SIG_BLOCK", "mkstemp", "SIG_SETMASK">>,
          closed |-> 0, uninit |-> FALSE, crash |-> FALSE,
          sigmask |-> BlockedThenRestored, maskfrom |-> "saved"]
    ELSE LET fd == LowestFreeFd(ft) IN
         [err |-> SUCCESS,
          rec |-> [rec EXCEPT !.fd = fd, !.fullpath = nf,
                              !.init = rec.init \cup {"fd", "fullpath"}],
          files |-> [fl EXCEPT ![nf] = [linked |-> TRUE, dir |-> dir,
                                        len |-> 0, data |-> <<>>]],
          fdtab |-> [ft EXCEPT ![fd] = nf],
          newf |-> nf, newfd |-> fd, osfail |-> "none",
          calls |-> <<"access", "SIG_BLOCK", "mkstemp", "SIG_SETMASK">>,
          closed |-> 0, uninit |-> FALSE, crash |-> FALSE,
          sigmask |-> BlockedThenRestored, maskfrom |-> "saved"]

\* void *request_pmem(dir, addr = NULL, size, pfile_ptr): the record is not
\* checked before pmem_create_tmpfile writes through it.
request_pmem(h, dir, size, fault, nf, a, g, c, gm) ==
    LET rec0 == [NoRec EXCEPT !.st = "failed", !.api = "v1"]
        t == pmem_create_tmpfile_v1(dir, rec0, files, fdtab, fault, nf, g, c, gm)
    IN IF h = 0
       THEN [files |-> files, fdtab |-> fdtab, maps |-> maps, heap |-> heap,
             addrOf |-> addrOf,
             last |-> [NoCall EXCEPT !.op = "request_pmem", !.dir = dir,
                           !.size = size, !.err = ERROR_MALLOC,
                           !.osfail = "malloc", !.crash = TRUE]]
       ELSE IF t.err # SUCCESS
       THEN malloc_exit("request_pmem", h, dir, size, t, t.err, t.osfail, t.calls, g)
       ELSE IF fault = "ftruncate" \/ t.newfd = 0
       THEN malloc_exit("request_pmem", h, dir, size, t, t.err, "ftruncate",
                        Append(t.calls, "ftruncate"), g)
       ELSE LET t2 == [t EXCEPT !.files = ftruncate(t.files, t.newf, size),
                                !.rec = [t.rec EXCEPT !.current_size = size,
                                            !.init = t.rec.init \cup {"current_size"}]]
                t3 == [t2 EXCEPT !.rec = [t2.rec EXCEPT !.dir = dir,
                                            !.init = t2.rec.init \cup {"dir"}]]
            IN IF fault = "strdup"
               THEN malloc_exit("request_pmem", h, dir, size, t2, ERROR_MALLOC, "strdup",
                                Append(t.calls, "ftruncate"), g)
               ELSE IF fault = "mmap" \/ a = 0
               THEN malloc_exit("request_pmem", h, dir, size, t3, ERROR_MMAP, "mmap",
                                t.calls \o <<"ftruncate", "mmap">>, g)
               ELSE [files |-> t3.files, fdtab |-> t3.fdtab,
                     maps |-> mmap(maps, a, t.newf, size),
                     heap |-> [heap EXCEPT ![h] = [t3.rec EXCEPT !.st = "live"]],
                     addrOf |-> [addrOf EXCEPT ![h] = a],
                     sigmask |-> t.sigmask,
                     last |-> [NoCall EXCEPT !.op = "request_pmem", !.h = h,
                                   !.maskfrom = t.maskfrom,
                                   !.dir = dir, !.size = size, !.ret = a,
                                   !.err = SUCCESS, !.newf = t.newf, !.newfd = t.newfd,
                                   !.calls = t.calls \o <<"ftruncate", "mmap">>]]

Call_request_pmem ==
    /\ Running
    /\ \E dir \in DirNames, size \in Sizes : \E fault \in Faults(dir, TRUE) :
       \E g \in (IF access(dir) \/ fault = "malloc" THEN {-1} ELSE Garbage),
          c \in (IF access(dir) \/ fault = "malloc" THEN {FALSE} ELSE BOOLEAN),
          gm \in (IF access(dir) \/ fault = "malloc" THEN {{}} ELSE SUBSET Signals) :
          Apply(request_pmem(IF fault = "malloc" THEN 0 ELSE Lowest(FreeHandles),
                             dir, size, fault,
                             Lowest(FreeFiles(files, fdtab, maps)),
                             Lowest(FreeAddrs(maps)), g, c, gm))

\* static int pmem_recreate_file(pfile_ptr, size): the new file is created
\* through the handle itself, and the descriptor closed is the handle's, by
\* then the new one.
pmem_recreate_file(h, size, fault, nf, g, c, gm) ==
    LET r == heap[h]
        t == pmem_create_tmpfile_v1(r.dir, r, files, fdtab, fault, nf, g, c, gm)
        base == [NoCall EXCEPT !.op = "pmem_recreate_file", !.h = h, !.size = size,
                     !.maskfrom = t.maskfrom,
                     !.pre = r.st, !.presize = r.current_size,
                     !.old = mem(addrOf[h]), !.newf = t.newf, !.newfd = t.newfd]
    IN IF t.err # SUCCESS
       THEN [files |-> Reap(t.files, t.fdtab, maps), fdtab |-> t.fdtab, maps |-> maps,
             heap |-> [heap EXCEPT ![h] = t.rec], addrOf |-> addrOf,
             sigmask |-> t.sigmask,
             last |-> [base EXCEPT !.ret = -1, !.err = t.err, !.osfail = t.osfail,
                           !.calls = t.calls, !.crash = t.crash]]
       ELSE IF fault = "fallocate"
       THEN [files |-> t.files, fdtab |-> t.fdtab, maps |-> maps,
             heap |-> [heap EXCEPT ![h] = t.rec], addrOf |-> addrOf,
             sigmask |-> t.sigmask,
             last |-> [base EXCEPT !.ret = -1, !.osfail = "fallocate",
                           !.calls = Append(t.calls, "posix_fallocate")]]
       ELSE LET fl2 == posix_fallocate(t.files, t.newf, size)
                ft2 == close(t.fdtab, t.rec.fd)
            IN [files |-> Reap(fl2, ft2, maps), fdtab |-> ft2, maps |-> maps,
                heap |-> [heap EXCEPT ![h] = [t.rec EXCEPT !.current_size = size]],
                addrOf |-> addrOf,
                sigmask |-> t.sigmask,
                last |-> [base EXCEPT !.ret = 0, !.closed = t.rec.fd,
                              !.calls = t.calls \o <<"posix_fallocate", "close">>]]

Live(api) == {h \in HandleIds : heap[h].api = api /\ heap[h].st = "live"}

Call_pmem_recreate_file ==
    /\ Running
    /\ \E h \in Live("v1"), size \in Sizes, fault \in {"none", "mkstemp", "fallocate"} :
          Apply(pmem_recreate_file(h, size, fault,
                                   Lowest(FreeFiles(files, fdtab, maps)), -1, FALSE, {}))

\* --------------------------------------- the unlink-at-creation variant

TemplateLenFd == 15

\* pmem_create_tmpfile(dir, &fd) without the unlink after mkstemp.
pmem_create_tmpfile_fd_nounlink(dir, fd0, fl, ft, fault, nf) ==
    IF ~access(dir) \/ DirLen[dir] > PATH_MAX
    THEN [err |-> ERROR_INVALID, fd |-> fd0, files |-> fl, fdtab |-> ft,
          newf |-> 0, osfail |-> IF access(dir) THEN "none" ELSE "access",
          calls |-> <<"access">>, sigmask |-> sigmask, maskfrom |-> "none"]
    ELSE IF \/ fault = "mkstemp"
            \/ ~(DirLen[dir] + TemplateLenFd < PATH_MAX)
            \/ FreeFds(ft) = {}
            \/ nf = 0
    THEN [err |-> ERROR_INVALID, fd |-> -1, files |-> fl, fdtab |-> ft,
          newf |-> 0, osfail |-> "mkstemp",
          calls |-> <<"access", "SIG_BLOCK", "mkstemp", "SIG_SETMASK">>,
          sigmask |-> BlockedThenRestored, maskfrom |-> "saved"]
    ELSE LET fd == LowestFreeFd(ft) IN
         [err |-> SUCCESS, fd |-> fd,
          files |-> [fl EXCEPT ![nf] = [linked |-> TRUE, dir |-> dir,
                                        len |-> 0, data |-> <<>>]],
          fdtab |-> [ft EXCEPT ![fd] = nf], newf |-> nf, osfail |-> "none",
          calls |-> <<"access", "SIG_BLOCK", "mkstemp", "SIG_SETMASK">>,
          sigmask |-> BlockedThenRestored, maskfrom |-> "saved"]

\* pmem_create_tmpfile(dir, &fd): the file is unlinked as soon as it exists.
pmem_create_tmpfile_fd(dir, fd0, fl, ft, fault, nf) ==
    IF ~access(dir) \/ DirLen[dir] > PATH_MAX
    THEN [err |-> ERROR_INVALID, fd |-> fd0, files |-> fl, fdtab |-> ft,
          newf |-> 0, osfail |-> IF access(dir) THEN "none" ELSE "access",
          calls |-> <<"access">>, sigmask |-> sigmask, maskfrom |-> "none"]
    ELSE IF \/ fault = "mkstemp"
            \/ ~(DirLen[dir] + TemplateLenFd < PATH_MAX)
            \/ FreeFds(ft) = {}
            \/ nf = 0
    THEN [err |-> ERROR_INVALID, fd |-> -1, files |-> fl, fdtab |-> ft,
          newf |-> 0, osfail |-> "mkstemp",
          calls |-> <<"access", "SIG_BLOCK", "mkstemp", "SIG_SETMASK">>,
          sigmask |-> BlockedThenRestored, maskfrom |-> "saved"]
    ELSE LET fd == LowestFreeFd(ft) IN
         [err |-> SUCCESS, fd |-> fd,
          files |-> [fl EXCEPT ![nf] = [linked |-> FALSE, dir |-> dir,
                                        len |-> 0, data |-> <<>>]],
          fdtab |-> [ft EXCEPT ![fd] = nf], newf |-> nf, osfail |-> "none",
          calls |-> <<"access", "SIG_BLOCK", "mkstemp", "unlink", "SIG_SETMASK">>,
          sigmask |-> BlockedThenRestored, maskfrom |-> "saved"]

\* A caller of pmem_create_tmpfile(dir, &fd) itself, with int fd = -1: the
\* descriptor it gets back is the caller's own.
Call_pmem_create_tmpfile_fd ==
    /\ Running
    /\ \E dir \in DirNames, fault \in {"none", "mkstemp"} :
       LET t == pmem_create_tmpfile_fd(dir, -1, files, fdtab, fault,
                                       Lowest(FreeFiles(files, fdtab, maps)))
       IN Apply([files |-> t.files, fdtab |-> t.fdtab, maps |-> maps, heap |-> heap,
                 addrOf |-> addrOf, sigmask |-> t.sigmask,
                 last |-> [NoCall EXCEPT !.op = "pmem_create_tmpfile_fd", !.dir = dir,
                               !.ret = t.err, !.err = t.err, !.osfail = t.osfail,
                               !.newf = t.newf,
                               !.newfd = IF t.fd = -1 THEN 0 ELSE t.fd,
                               !.maskfrom = t.maskfrom, !.calls = t.calls]])

\* The exit: label of request_pmem (fd variant): close fd unless it is -1.
\* rec is the record left on the heap, if one was allocated (h # 0).
request_exit_fd(h, rec, dir, size, t, err, osfail, calls) ==
    LET ft2 == IF t.fd # -1 THEN close(t.fdtab, t.fd) ELSE t.fdtab
    IN [files |-> Reap(t.files, ft2, maps), fdtab |-> ft2, maps |-> maps,
        heap |-> IF h = 0 THEN heap ELSE [heap EXCEPT ![h] = rec],
        addrOf |-> IF h = 0 THEN addrOf ELSE [addrOf EXCEPT ![h] = 0],
        sigmask |-> t.sigmask,
        last |-> [NoCall EXCEPT !.op = "request_pmem_fd", !.h = h, !.dir = dir,
                      !.maskfrom = t.maskfrom,
                      !.size = size, !.ret = 0, !.err = err, !.osfail = osfail,
                      !.newf = t.newf, !.newfd = IF t.fd = -1 THEN 0 ELSE t.fd,
                      !.closed = IF t.fd # -1 THEN t.fd ELSE 0,
                      !.calls = IF t.fd # -1 THEN Append(calls, "close") ELSE calls]]

\* void *request_pmem(dir, addr = NULL, size, pfile): the record is
\* allocated after the file is sized; pfile is the callee's own copy of the
\* pointer.
request_pmem_fd(h, dir, size, fault, nf, a) ==
    LET t == pmem_create_tmpfile_fd(dir, -1, files, fdtab, fault, nf)
        t2 == [t EXCEPT !.files = ftruncate(t.files, t.newf, size)]
        rec == [NoRec EXCEPT !.st = "failed", !.api = "v3", !.fd = t.fd,
                    !.current_size = size, !.init = {"fd", "current_size"}]
        rec2 == [rec EXCEPT !.dir = dir, !.init = rec.init \cup {"dir"}]
    IN IF t.err # SUCCESS
       THEN request_exit_fd(0, NoRec, dir, size, t, t.err, t.osfail, t.calls)
       ELSE IF fault = "ftruncate"
       THEN request_exit_fd(0, NoRec, dir, size, t, t.err, "ftruncate",
                            Append(t.calls, "ftruncate"))
       ELSE IF h = 0
       THEN request_exit_fd(0, NoRec, dir, size, t2, t.err, "malloc",
                            Append(t.calls, "ftruncate"))
       ELSE IF fault = "strdup"
       THEN request_exit_fd(h, rec, dir, size, t2, ERROR_MALLOC, "strdup",
                            Append(t.calls, "ftruncate"))
       ELSE IF fault = "mmap" \/ a = 0
       THEN request_exit_fd(h, rec2, dir, size, t2, ERROR_MMAP, "mmap",
                            t.calls \o <<"ftruncate", "mmap">>)
       ELSE [files |-> t2.files, fdtab |-> t2.fdtab,
             maps |-> mmap(maps, a, t.newf, size),
             heap |-> [heap EXCEPT ![h] = [rec2 EXCEPT !.st = "live"]],
             addrOf |-> [addrOf EXCEPT ![h] = a],
             sigmask |-> t.sigmask,
             last |-> [NoCall EXCEPT !.op = "request_pmem_fd", !.h = h, !.dir = dir,
                           !.maskfrom = t.maskfrom,
                           !.size = size, !.ret = a, !.err = SUCCESS,
                           !.newf = t.newf, !.newfd = t.fd,
                           !.calls = t.calls \o <<"ftruncate", "mmap">>]]

Call_request_pmem_fd ==
    /\ Running
    /\ \E dir \in DirNames, size \in Sizes : \E fault \in Faults(dir, TRUE) :
          Apply(request_pmem_fd(IF fault = "malloc" THEN 0 ELSE Lowest(FreeHandles),
                                dir, size, fault,
                                Lowest(FreeFiles(files, fdtab, maps)),
                                Lowest(FreeAddrs(maps))))

\* static int pmem_recreate_file(pfile, size) of the fd variant: a new
\* unlinked file replaces the handle's descriptor; the mapping is not touched.
pmem_recreate_file_fd(h, size, fault, nf) ==
    LET r == heap[h]
        t == pmem_create_tmpfile_fd(r.dir, -1, files, fdtab, fault, nf)
        base == [NoCall EXCEPT !.op = "pmem_recreate_file_fd", !.h = h,
                     !.maskfrom = t.maskfrom,
                     !.size = size, !.pre = r.st, !.presize = r.current_size,
                     !.old = mem(addrOf[h]), !.newf = t.newf,
                     !.newfd = IF t.fd = -1 THEN 0 ELSE t.fd]
    IN IF t.err # SUCCESS
       THEN [files |-> files, fdtab |-> fdtab, maps |-> maps, heap |-> heap,
             addrOf |-> addrOf, sigmask |-> t.sigmask,
             last |-> [base EXCEPT !.ret = -1, !.err = t.err, !.osfail = t.osfail,
                           !.calls = t.calls]]
       ELSE IF fault = "fallocate"
       THEN [files |-> t.files, fdtab |-> t.fdtab, maps |-> maps, heap |-> heap,
             addrOf |-> addrOf, sigmask |-> t.sigmask,
             last |-> [base EXCEPT !.ret = -1, !.osfail = "fallocate",
                           !.calls = Append(t.calls, "posix_fallocate")]]
       ELSE LET fl2 == posix_fallocate(t.files, t.newf, size)
                ft2 == close(t.fdtab, r.fd)
            IN [files |-> Reap(fl2, ft2, maps), fdtab |-> ft2, maps |-> maps,
                heap |-> [heap EXCEPT ![h].fd = t.fd, ![h].current_size = size],
                addrOf |-> addrOf, sigmask |-> t.sigmask,
                last |-> [base EXCEPT !.ret = 0, !.closed = r.fd,
                              !.calls = t.calls \o <<"posix_fallocate", "close">>]]

Call_pmem_recreate_file_fd ==
    /\ Running
    /\ \E h \in Live("v3"), size \in Sizes, fault \in {"none", "mkstemp", "fallocate"} :
          Apply(pmem_recreate_file_fd(h, size, fault,
                                      Lowest(FreeFiles(files, fdtab, maps))))

\* ------------------------------------------- the single-record variant

INIT_SUCCESS == 1
CLEANUP_SUCCESS == 2
INIT_ERROR_DIRPATH_TOOLONG == -1
INIT_ERROR_MKSTEMP_FAILED == -2

\* File names a caller may pass to pmem_init: mkstemp() only accepts a name
\* that ends in XXXXXX.
FileNames == {"pmem.XXXXXX", "pmem.dat"}
IsTemplate(filename) == filename = "pmem.XXXXXX"

\* int pmem_init(dir, filename, max_size): the file is created and unlinked
\* with signals blocked, then a record is allocated and stored in the global
\* pmem_info, whatever pmem_info pointed at before.  h is the record malloc
\* returns (0: NULL, written through unchecked).
pmem_init(h, dir, filename, max_size, fault, nf) ==
    LET base == [NoCall EXCEPT !.op = "pmem_init", !.dir = dir, !.size = max_size,
                     !.pre = IF pmem_info = 0 THEN "none" ELSE heap[pmem_info].st,
                     !.old = <<pmem_info>>]
        quiet == [files |-> files, fdtab |-> fdtab, maps |-> maps, heap |-> heap,
                  addrOf |-> addrOf, sigmask |-> sigmask, pmem_info |-> pmem_info,
                  last |-> base]
    IN IF DirLen[dir] > PATH_MAX
       THEN [quiet EXCEPT !.last = [base EXCEPT !.ret = INIT_ERROR_DIRPATH_TOOLONG,
                                        !.err = INIT_ERROR_DIRPATH_TOOLONG]]
       ELSE IF ~(IsTemplate(filename) /\ mkstemp_ok(dir, fdtab, fault, nf))
       THEN [quiet EXCEPT !.sigmask = BlockedThenRestored,
                          !.last = [base EXCEPT !.ret = INIT_ERROR_MKSTEMP_FAILED,
                                        !.err = INIT_ERROR_MKSTEMP_FAILED,
                                        !.osfail = "mkstemp", !.maskfrom = "saved",
                                        !.calls = <<"SIG_BLOCK", "mkstemp",
                                                    "SIG_SETMASK">>]]
       ELSE LET fd == LowestFreeFd(fdtab)
                fl2 == [files EXCEPT ![nf] = [linked |-> FALSE, dir |-> dir,
                                              len |-> 0, data |-> <<>>]]
                ft2 == [fdtab EXCEPT ![fd] = nf]
                made == [base EXCEPT !.newf = nf, !.newfd = fd, !.maskfrom = "saved",
                             !.calls = <<"SIG_BLOCK", "mkstemp", "unlink",
                                         "SIG_SETMASK">>]
            IN IF h = 0
               THEN [quiet EXCEPT !.files = fl2, !.fdtab = ft2,
                                  !.sigmask = BlockedThenRestored, !.pmem_info = 0,
                                  !.last = [made EXCEPT !.osfail = "malloc",
                                                !.crash = TRUE]]
               ELSE [quiet EXCEPT
                       !.files = fl2, !.fdtab = ft2,
                       !.sigmask = BlockedThenRestored,
                       !.pmem_info = h,
                       !.heap = [heap EXCEPT ![h] =
                                   [NoRec EXCEPT !.st = "live", !.api = "v2",
                                       !.fd = fd, !.current_size = 0,
                                       !.max_size = max_size, !.dir = dir,
                                       !.init = {"fd", "offset", "current_size",
                                                 "max_size", "dir"}]],
                       !.last = [made EXCEPT !.h = h, !.ret = INIT_SUCCESS,
                                     !.err = INIT_SUCCESS,
                                     !.osfail = IF fault = "strdup" THEN "malloc"
                                                ELSE "none",
                                     !.crash = fault = "strdup"]]

Call_pmem_init ==
    /\ Running
    /\ \E dir \in DirNames, filename \in FileNames, max_size \in Sizes,
          fault \in {"none", "mkstemp", "malloc", "strdup"} :
          Apply(pmem_init(IF fault = "malloc" THEN 0 ELSE Lowest(FreeHandles),
                          dir, filename, max_size, fault,
                          Lowest(FreeFiles(files, fdtab, maps))))

\* int pmem_cleanup() of the single-record variant: the record pmem_info
\* points at is closed and freed; pmem_info keeps pointing at it.  Through a
\* pointer left dangling the descriptor read is any value (g) and the second
\* free aborts (c) or goes unnoticed; through NULL the call crashes.
pmem_cleanup_info(g, c) ==
    LET base == [NoCall EXCEPT !.op = "pmem_cleanup_info", !.h = pmem_info,
                     !.pre = IF pmem_info = 0 THEN "none" ELSE heap[pmem_info].st]
        quiet == [files |-> files, fdtab |-> fdtab, maps |-> maps, heap |-> heap,
                  addrOf |-> addrOf, last |-> base]
    IN IF pmem_info = 0
       THEN [quiet EXCEPT !.last = [base EXCEPT !.crash = TRUE]]
       ELSE LET r == heap[pmem_info]
                dangling == r.st # "live" \/ r.api # "v2"
                fd == IF dangling THEN g ELSE r.fd
                ft2 == close(fdtab, fd)
            IN [quiet EXCEPT
                  !.files = Reap(files, ft2, maps), !.fdtab = ft2,
                  !.heap = IF dangling THEN heap
                           ELSE [heap EXCEPT ![pmem_info] =
                                   [NoRec EXCEPT !.st = "freed", !.api = "v2"]],
                  !.last = [base EXCEPT !.ret = CLEANUP_SUCCESS,
                                !.err = CLEANUP_SUCCESS, !.closed = fd, !.hfd = fd,
                                !.calls = <<"pthread_mutex_destroy", "close", "free">>,
                                !.crash = dangling /\ c]]

Call_pmem_cleanup_info ==
    /\ Running
    /\ IF pmem_info # 0 /\ heap[pmem_info].st = "live" /\ heap[pmem_info].api = "v2"
       THEN Apply(pmem_cleanup_info(-1, FALSE))
       ELSE \E g \in Garbage, c \in BOOLEAN : Apply(pmem_cleanup_info(g, c))

\* ------------------------------------------- pmem_free, statement by statement

\* A thread enters pmem_free(addr, pfile_ptr) on a handle it shares with the
\* others: munmap(addr, (*pfile_ptr)->current_size).  Nothing is locked.
\* The size read through a record already released is any value (gs).
T_munmap(t) ==
    /\ Running
    /\ thr[t].pc = "idle"
    /\ \E h \in Held("v4"), fault \in {"none", "munmap"} :
       \E gs \in (IF heap[h].st = "freed" THEN {0, 1} ELSE {1}) :
       LET size == IF heap[h].st = "freed" THEN gs ELSE heap[h].current_size IN
       IF fault = "munmap" \/ size = 0
       THEN /\ thr' = [thr EXCEPT ![t] = [pc |-> "done", h |-> h, ret |-> ERROR_MMAP]]
            /\ UNCHANGED maps
       ELSE /\ thr' = [thr EXCEPT ![t] = [pc |-> "munmapped", h |-> h, ret |-> 0]]
            /\ maps' = munmap(maps, addrOf[h])
    /\ files' = Reap(files, fdtab, maps')
    /\ ncalls' = ncalls + 1
    /\ UNCHANGED <<fdtab, heap, addrOf, subdirs, sigmask, pmem_info, last>>

\* (void)close((*pfile_ptr)->fd)
T_close(t) ==
    /\ ~last.crash
    /\ thr[t].pc = "munmapped"
    /\ \E g \in (IF heap[thr[t].h].st = "freed" THEN Garbage ELSE {-1}) :
       LET fd == IF heap[thr[t].h].st = "freed" THEN g ELSE heap[thr[t].h].fd IN
       /\ fdtab' = close(fdtab, fd)
       /\ files' = Reap(files, fdtab', maps)
    /\ thr' = [thr EXCEPT ![t].pc = "closed"]
    /\ UNCHANGED <<maps, heap, addrOf, subdirs, ncalls, sigmask, pmem_info, last>>

\* if (unlink((*pfile_ptr)->fullpath) != 0) return ERROR_RUNTIME;
T_unlink(t) ==
    /\ ~last.crash
    /\ thr[t].pc = "closed"
    /\ \E fault \in {"none", "unlink"},
          gp \in (IF heap[thr[t].h].st = "freed" THEN FileIds ELSE {1}) :
       LET path == IF heap[thr[t].h].st = "freed" THEN gp
                   ELSE heap[thr[t].h].fullpath IN
       IF fault = "unlink" \/ ~unlink_ok(files, path)
       THEN /\ thr' = [thr EXCEPT ![t].pc = "done", ![t].ret = ERROR_RUNTIME]
            /\ heap' = [heap EXCEPT ![thr[t].h].st = IF @ = "freed" THEN @ ELSE "zombie"]
            /\ UNCHANGED files
       ELSE /\ thr' = [thr EXCEPT ![t].pc = "unlinked"]
            /\ files' = Reap(unlink(files, path), fdtab, maps)
            /\ UNCHANGED heap
    /\ UNCHANGED <<fdtab, maps, addrOf, subdirs, ncalls, sigmask, pmem_info, last>>

\* free((*pfile_ptr)->fullpath); free(*pfile_ptr); return SUCCESS.  Freeing
\* a record another thread has freed aborts (c) or goes unnoticed.
T_free(t) ==
    /\ ~last.crash
    /\ thr[t].pc = "unlinked"
    /\ \E c \in (IF heap[thr[t].h].st = "freed" THEN BOOLEAN ELSE {FALSE}) :
       /\ last' = [NoCall EXCEPT !.op = "T_free", !.h = thr[t].h,
                        !.pre = heap[thr[t].h].st, !.ret = SUCCESS, !.crash = c]
    /\ heap' = [heap EXCEPT ![thr[t].h] = [NoRec EXCEPT !.st = "freed", !.api = "v4"]]
    /\ thr' = [thr EXCEPT ![t].pc = "done", ![t].ret = SUCCESS]
    /\ UNCHANGED <<files, fdtab, maps, addrOf, subdirs, ncalls, sigmask, pmem_info>>

\* The library as it stands: pmem_malloc, pmem_free, pmem_cleanup_all, and a
\* caller that fills what it was given.
Next ==
    \/ Call_pmem_malloc
    \/ Call_pmem_free
    \/ Call_pmem_cleanup_all
    \/ Call_store

Spec == Init /\ [][Next]_vars

\* The retained-path variant with request_pmem, pmem_cleanup and the resize.
NextPath ==
    \/ Call_request_pmem
    \/ Call_pmem_cleanup
    \/ Call_pmem_recreate_file
    \/ Call_pmem_cleanup_all
    \/ Call_store

SpecPath == Init /\ [][NextPath]_vars

\* The unlink-at-creation variant.
NextFd ==
    \/ Call_pmem_create_tmpfile_fd
    \/ Call_request_pmem_fd
    \/ Call_pmem_cleanup_fd
    \/ Call_pmem_recreate_file_fd
    \/ Call_store

SpecFd == Init /\ [][NextFd]_vars

\* The single-record variant: pmem_init and pmem_cleanup over pmem_info.
NextInfo ==
    \/ Call_pmem_init
    \/ Call_pmem_cleanup_info

SpecInfo == Init /\ [][NextInfo]_vars

\* Threads sharing the handles pmem_malloc returned, each running pmem_free
\* one statement at a time.
NextThreads ==
    \/ Call_pmem_malloc
    \/ \E t \in Threads : T_munmap(t)
    \/ \E t \in Threads : T_close(t)
    \/ \E t \in Threads : T_unlink(t)
    \/ \E t \in Threads : T_free(t)

SpecThreads == Init /\ [][NextThreads]_vars

\* ================================================================ claims

AllocOps == {"pmem_malloc", "request_pmem"}
TooLong(dir) == DirLen[dir] + TemplateLen >= PATH_MAX
LinkedIn(fl) == {f \in FileIds : fl[f].linked}

\* C1: for an existing, accessible directory and a size > 0, when no OS step
\* fails, the allocation succeeds: a mapped address is returned, the handle's
\* current_size is the size asked for, and the file at the retained path has
\* exactly that length.
C1_AllocateSucceeds ==
    (/\ last.op \in AllocOps
     /\ access(last.dir)
     /\ last.size > 0
     /\ last.osfail = "none")
    => /\ ~last.crash
       /\ last.ret \in Addrs
       /\ maps[last.ret].file = last.newf
       /\ maps[last.ret].len = last.size
       /\ addrOf[last.h] = last.ret
       /\ heap[last.h].st = "live"
       /\ heap[last.h].current_size = last.size
       /\ heap[last.h].fullpath = last.newf
       /\ files[last.newf].linked
       /\ files[last.newf].len = last.size

C1_Witness ==
    /\ last.op = "pmem_malloc"
    /\ last.dir = "pmem_tmp"
    /\ last.osfail = "none"
    /\ last.size = MaxSize
    /\ last.ret \in Addrs
    /\ ncalls > 1

\* C2: when a step of allocate after the creation of the backing file fails,
\* the call returns with the descriptor it opened closed, the file it
\* created gone from the directory, no mapping of it, and no handle record
\* left behind.
C2_FailedAllocateRollsBack ==
    (/\ last.op \in AllocOps
     /\ last.newf # 0
     /\ last.ret = 0
     /\ ~last.crash)
    => /\ fdtab[last.newfd] = 0
       /\ ~files[last.newf].linked
       /\ \A a \in Addrs : maps[a].file # last.newf
       /\ heap[last.h].st # "failed"

\* C3: allocate with a directory that does not exist returns NULL with
\* ERROR_INVALID from the temp-file creation, and no directory gains a file.
C3_MissingDirectoryRejected ==
    [][(/\ last'.op = "pmem_malloc"
        /\ last'.dir \notin DirExists
        /\ last'.osfail # "malloc")
       => /\ last'.ret = 0
          /\ last'.err = ERROR_INVALID
          /\ ~last'.crash
          /\ LinkedIn(files') \subseteq LinkedIn(files)
          /\ \A f \in LinkedIn(files') : files'[f].dir = files[f].dir]_vars

C3_Witness ==
    /\ last.op = "pmem_malloc"
    /\ last.dir = "nodir"
    /\ last.ret = 0
    /\ last.err = ERROR_INVALID
    /\ LinkedIn(files) # {}

\* C4: allocate with a directory whose candidate path (directory joined with
\* the template) exceeds the path limit returns NULL with ERROR_INVALID, and
\* no file is created at any point of the call.
C4_TooLongPathRejected ==
    [][(/\ last'.op = "pmem_malloc"
        /\ TooLong(last'.dir)
        /\ last'.osfail # "malloc")
       => /\ last'.ret = 0
          /\ last'.err = ERROR_INVALID
          /\ last'.newf = 0
          /\ ~("ftruncate" \in {last'.calls[i] : i \in DOMAIN last'.calls})
          /\ LinkedIn(files') \subseteq LinkedIn(files)]_vars

C4_Witness ==
    /\ last.op = "pmem_malloc"
    /\ last.dir = "deep"
    /\ access(last.dir)
    /\ last.osfail = "mkstemp"
    /\ last.ret = 0
    /\ LinkedIn(files) # {}

\* C5: a second free on a handle already freed returns an error and makes no
\* OS call: no munmap, no close, no unlink, no release of the record.
C5_SecondFreeRejected ==
    (last.op \in {"pmem_free", "pmem_cleanup"} /\ last.pre = "freed")
    => /\ last.calls = <<>>
       /\ last.ret # SUCCESS
       /\ ~last.crash

\* C6: after a successful resize of a live handle to a larger size, the
\* handle's current_size is the new size, the address the caller holds maps
\* exactly [0, new size) of the handle's current backing file, and the bytes
\* of the old range are the ones that were there before.
C6_ResizeRemaps ==
    (/\ last.op \in {"pmem_recreate_file", "pmem_recreate_file_fd"}
     /\ last.pre = "live"
     /\ last.ret = 0
     /\ last.size > last.presize)
    => /\ heap[last.h].current_size = last.size
       /\ addrOf[last.h] \in Addrs
       /\ maps[addrOf[last.h]].file = last.newf
       /\ maps[addrOf[last.h]].len = last.size
       /\ fdtab[heap[last.h].fd] = last.newf
       /\ \A i \in 1..last.presize : mem(addrOf[last.h])[i] = last.old[i]

\* C7: cleanup_all(D) removes every regular file directly under D, whatever
\* else D holds and in whatever order it is listed.
C7_CleanupAllRemovesEveryFile ==
    (last.op = "pmem_cleanup_all" /\ access(last.dir))
    => \A f \in FileIds : ~(files[f].linked /\ files[f].dir = last.dir)

\* C8: when the removal of one entry fails, cleanup_all still attempts every
\* other entry of the directory and reports the failure.
C8_CleanupAllContinues ==
    (last.op = "pmem_cleanup_all" /\ access(last.dir))
    => /\ last.tried = last.listed
       /\ (0 \in last.listed => last.ret # SUCCESS)

\* C9: every return of free on a live handle leaves nothing of the
\* allocation: the mapping is gone, the descriptor closed, the backing file
\* absent and the handle record released.
C9_FreeLeavesNoResidue ==
    (last.op = "pmem_free" /\ last.pre = "live")
    => /\ heap[last.h].st = "freed"
       /\ last.haddr \in Addrs => maps[last.haddr].file = 0
       /\ last.hfd \in Fds => fdtab[last.hfd] = 0
       /\ ~files[last.hpath].linked

\* C10: while an allocation with a retained path is live and its file is
\* still in the directory, reading the file at the handle's path gives the
\* bytes seen (and stored) through the mapped address.
C10_PathReadsWhatWasStored ==
    \A h \in HandleIds :
        (/\ heap[h].st = "live"
         /\ heap[h].api \in {"v1", "v4"}
         /\ heap[h].fullpath \in FileIds
         /\ files[heap[h].fullpath].linked)
        => fread_path(heap[h].fullpath) = mem(addrOf[h])

\* The fields of struct pmem_file each variant declares.
Fields(api) == IF api = "v4" THEN {"fd", "current_size", "fullpath"}
               ELSE IF api = "v1" THEN {"fd", "current_size", "fullpath", "dir"}
               ELSE {"fd", "current_size", "dir"}

\* C11: allocate hands the caller either a fully initialized handle (open
\* descriptor, mapping over its file, every field set) with a non-NULL
\* address, or a failure after which the caller's handle pointer refers to no
\* partially initialized record.
C11_HandleWholeOrAbsent ==
    (last.op \in AllocOps /\ ~last.crash)
    => IF last.ret # 0
       THEN /\ heap[last.h].st = "live"
            /\ Fields(heap[last.h].api) \subseteq heap[last.h].init
            /\ heap[last.h].fd \in Fds
            /\ fdtab[heap[last.h].fd] # 0
            /\ maps[last.ret].file = fdtab[heap[last.h].fd]
       ELSE last.h = 0 \/ heap[last.h].st # "failed"

\* The file a handle stands for: the one its descriptor is open on.
BackingFile(h) == IF heap[h].fd \in Fds THEN fdtab[heap[h].fd] ELSE 0

\* C12: in every reachable state each live handle's current_size is the
\* length of its backing file and the length of its mapping.
C12_SizeIsFileAndMapping ==
    \A h \in HandleIds :
        heap[h].st = "live"
        => /\ BackingFile(h) # 0
           /\ files[BackingFile(h)].len = heap[h].current_size
           /\ addrOf[h] \in Addrs
           /\ maps[addrOf[h]].file # 0
           /\ maps[addrOf[h]].len = heap[h].current_size

\* C13: allocations live at the same time each keep their own handle:
\* creating a new allocation never overwrites or loses the record of one that
\* is still live.  In the single-record variant the only handle is pmem_info.
C13_LiveRecordsKept ==
    \A h \in HandleIds :
        (heap[h].st = "live" /\ heap[h].api = "v2") => pmem_info = h

InFree(t) == thr[t].pc \in {"munmapped", "closed", "unlinked"}

\* C14: calls of free (or resize) on the same handle from two threads are
\* serialized: at most one of them is between its first and its last
\* statement on that handle at any time.
C14_OneMutationInFlight ==
    \A t, u \in Threads :
        (t # u /\ InFree(t) /\ InFree(u)) => thr[t].h # thr[u].h

IsPrefix(s, t) == Len(s) <= Len(t) /\ \A i \in 1..Len(s) : s[i] = t[i]

\* C15: free on a live handle unmaps, then closes the descriptor, then
\* unlinks the backing file, then releases the record: whenever it returns,
\* the descriptor is not closed nor the file unlinked while the mapping is
\* still there, and the record is not released before the three OS steps.
C15_FreeOrder ==
    [][(last'.op = "pmem_free" /\ last'.pre = "live")
       => /\ IsPrefix(last'.calls, <<"munmap", "close", "unlink", "free">>)
          /\ (fdtab' # fdtab \/ LinkedIn(files') # LinkedIn(files))
             => maps'[last'.haddr].file = 0
          /\ heap'[last'.h].st = "freed"
             => /\ maps'[last'.haddr].file = 0
                /\ fdtab'[last'.hfd] = 0
                /\ ~files'[last'.hpath].linked]_vars

C15_Witness ==
    /\ last.op = "pmem_free"
    /\ last.pre = "live"
    /\ last.ret = SUCCESS
    /\ last.calls = <<"munmap", "close", "unlink", "free">>
    /\ ncalls = MaxCalls

ResizeOps == {"pmem_recreate_file", "pmem_recreate_file_fd"}

\* C16: after a successful resize the old backing file is unmapped and
\* released (descriptor closed, file gone from disk) and the handle's
\* descriptor, file and size are those of the new file, whose descriptor is
\* open.
C16_ResizeSwaps ==
    [][(last'.op \in ResizeOps /\ last'.pre = "live" /\ last'.ret = 0)
       => LET h == last'.h
              oldfd == heap[h].fd
              oldf == IF oldfd \in Fds THEN fdtab[oldfd] ELSE 0
          IN /\ oldfd \in Fds => fdtab'[oldfd] # oldf \/ oldf = 0
             /\ oldf # 0 => /\ ~files'[oldf].linked
                             /\ \A a \in Addrs : maps'[a].file # oldf
             /\ heap'[h].fd = last'.newfd
             /\ fdtab'[last'.newfd] = last'.newf
             /\ heap'[h].current_size = last'.size
             /\ files'[last'.newf].len >= last'.size]_vars

\* C18: free on a live handle whose backing file is already gone from the
\* directory still unmaps, closes the descriptor, releases the record and
\* returns success.
C18_FreeWithoutFile ==
    [][(/\ last'.op = "pmem_free"
        /\ last'.pre = "live"
        /\ ~files[heap[last'.h].fullpath].linked
        /\ last'.osfail # "munmap")
       => /\ last'.ret = SUCCESS
          /\ heap'[last'.h].st = "freed"
          /\ maps'[last'.haddr].file = 0
          /\ fdtab'[last'.hfd] = 0]_vars

HandleOps == {"pmem_malloc", "pmem_free"}

\* C20: an allocate or free on one handle leaves every other live handle
\* untouched: its descriptor (number and what it is open on), current_size,
\* backing path, mapping and backing file are the same after the call.
C20_OtherHandlesUntouched ==
    [][(last'.op \in HandleOps)
       => \A B \in HandleIds :
            (B # last'.h /\ heap[B].st = "live")
            => LET fd == heap[B].fd
                   f == IF fd \in Fds THEN fdtab[fd] ELSE 0
               IN /\ heap'[B] = heap[B]
                  /\ addrOf'[B] = addrOf[B]
                  /\ fd \in Fds => fdtab'[fd] = fdtab[fd]
                  /\ addrOf[B] \in Addrs => maps'[addrOf[B]] = maps[addrOf[B]]
                  /\ f # 0 => files'[f] = files[f]]_vars

\* C21: a resize that fails (temp-file creation or posix_fallocate failed)
\* leaves the handle as it was before the call: same record (descriptor,
\* path, current_size), the descriptor table unchanged (the old descriptor
\* still open, no new one), and no new file on disk.
C21_FailedResizeKeepsHandle ==
    [][(last'.op \in ResizeOps /\ last'.pre = "live" /\ last'.ret = -1)
       => /\ heap'[last'.h] = heap[last'.h]
          /\ fdtab' = fdtab
          /\ LinkedIn(files') = LinkedIn(files)]_vars

\* C22: on every failure path of allocate the cleanup never dereferences an
\* absent handle, never reads a descriptor field that was not assigned, and
\* closes only the descriptor this call itself opened (one that was free
\* before the call).
C22_FailurePathsSafe ==
    [][(last'.op = "pmem_malloc" /\ last'.ret = 0)
       => /\ ~last'.crash
          /\ ~last'.uninit
          /\ last'.closed # 0 => /\ last'.closed = last'.newfd
                                  /\ fdtab[last'.closed] = 0]_vars

\* How many times call c occurs in the log s.
Count(s, c) == Cardinality({i \in DOMAIN s : s[i] = c})

\* C23: every return of pmem_cleanup_all that follows a successful opendir
\* has closed the directory stream and freed the path buffer of each entry
\* it built, the return after a failed unlink included.
C23_CleanupAllReleases ==
    (last.op = "pmem_cleanup_all" /\ last.osfail # "opendir")
    => /\ Count(last.calls, "opendir") = 1
       /\ Count(last.calls, "closedir") = 1
       /\ Count(last.calls, "free") = Count(last.calls, "malloc")

\* The place of call c in the log s (0: not made).
Index(s, c) == IF \E i \in DOMAIN s : s[i] = c
               THEN CHOOSE i \in DOMAIN s : s[i] = c ELSE 0

CreateOps == {"pmem_malloc", "request_pmem", "pmem_recreate_file",
              "request_pmem_fd", "pmem_recreate_file_fd"}

\* C17: on every return path of the temp-file creation the signal mask after
\* the call is the mask before it, and the mask is only ever set from the
\* value this call saved.
C17_SignalMaskRestored ==
    [][(last'.op \in CreateOps)
       => /\ sigmask' = sigmask
          /\ last'.maskfrom # "unsaved"]_vars

====
